---- MODULE Spec2Model ----
(***************************************************************************)
(* A model of src/src/main.rs: the sandboxed path resolver                 *)
(* (is_path_allowed and the handlers that call it) over a small            *)
(* filesystem with directories, regular files and symbolic links, and the  *)
(* Markdown renderer (render_markdown) as a state machine over the parse   *)
(* events.                                                                 *)
(*                                                                         *)
(* A path is a sequence of component names; the empty sequence is "/".     *)
(* Spec   : the filesystem and the request handlers.                       *)
(* SpecMd : render_markdown, one loop iteration per step.                  *)
(***************************************************************************)
EXTENDS Integers, Sequences, FiniteSets, TLC

VARIABLES fs, readdir_rev, resp, doc, md

vars == <<fs, readdir_rev, resp, doc, md>>

(***************************************************************************)
(* Bounds of the model.                                                    *)
(***************************************************************************)
\* How many symbolic links one path resolution follows before it gives up.
MaxLinkHops == 2
\* How many blocks a Markdown document holds.
MaxBlocks == 3
\* How many lines a descriptor file holds.
MaxLines == 3

(***************************************************************************)
(* Names and their bytes.                                                  *)
(***************************************************************************)
Names ==
  {"ws", "wsx", "p", "a.txt", "README.md", "ABOUT", ".hidden", ".gitignore",
   "d", "f.txt", "l", "s.txt", "Q", "wl", "r.txt", ".git", "sl"}

\* The ASCII bytes of a name.
Chars(n) ==
  CASE n = "ws"         -> <<119, 115>>
    [] n = "wsx"        -> <<119, 115, 120>>
    [] n = "p"          -> <<112>>
    [] n = "a.txt"      -> <<97, 46, 116, 120, 116>>
    [] n = "README.md"  -> <<82, 69, 65, 68, 77, 69, 46, 109, 100>>
    [] n = "ABOUT"      -> <<65, 66, 79, 85, 84>>
    [] n = ".hidden"    -> <<46, 104, 105, 100, 100, 101, 110>>
    [] n = ".gitignore" -> <<46, 103, 105, 116, 105, 103, 110, 111, 114, 101>>
    [] n = "d"          -> <<100>>
    [] n = "f.txt"      -> <<102, 46, 116, 120, 116>>
    [] n = "l"          -> <<108>>
    [] n = "s.txt"      -> <<115, 46, 116, 120, 116>>
    [] n = "Q"          -> <<81>>
    [] n = "wl"         -> <<119, 108>>
    [] n = "r.txt"      -> <<114, 46, 116, 120, 116>>
    [] n = ".git"       -> <<46, 103, 105, 116>>
    [] n = "sl"         -> <<115, 108>>
    [] n = ".."         -> <<46, 46>>
    [] n = "#tag"       -> <<35, 116, 97, 103>>
    [] n = "  #tag"     -> <<32, 32, 35, 116, 97, 103>>
    [] n = "# t2"       -> <<35, 32, 116, 50>>
    [] n = "tag"        -> <<116, 97, 103>>
    [] n = "t2"         -> <<116, 50>>
    [] n = "sum"        -> <<115, 117, 109>>
    [] n = " sum "      -> <<32, 115, 117, 109, 32>>
    [] n = "more"       -> <<109, 111, 114, 101>>
    [] n = "  "         -> <<32, 32>>
    [] OTHER            -> <<>>

\* The strings that lines of text and what is cut from them can be, and the
\* string that a sequence of bytes spells.
Strings == {"", "  ", "#tag", "  #tag", "# t2", "tag", "t2", "sum", " sum ", "more"}

Str(bytes) == CHOOSE s \in Strings : Chars(s) = bytes

\* char::to_lowercase on an ASCII byte.
LowerByte(b) == IF b >= 65 /\ b <= 90 THEN b + 32 ELSE b

\* str::to_lowercase.
to_lowercase(s) == [i \in 1..Len(s) |-> LowerByte(s[i])]

\* The first index where two byte strings differ (0: one is a prefix of the other).
FirstDiff(s, t) ==
  LET m == IF Len(s) < Len(t) THEN Len(s) ELSE Len(t)
      D == {i \in 1..m : s[i] # t[i]}
  IN IF D = {} THEN 0 ELSE CHOOSE i \in D : \A j \in D : i <= j

\* Ord::cmp on strings: "Less", "Equal" or "Greater", byte by byte.
StrCmp(s, t) ==
  LET i == FirstDiff(s, t)
  IN IF i # 0 THEN (IF s[i] < t[i] THEN "Less" ELSE "Greater")
     ELSE IF Len(s) < Len(t) THEN "Less"
     ELSE IF Len(s) > Len(t) THEN "Greater"
     ELSE "Equal"

\* str::starts_with('.').
StartsWithDot(n) == Len(Chars(n)) > 0 /\ Chars(n)[1] = 46

(***************************************************************************)
(* Paths.                                                                  *)
(***************************************************************************)
Front(p) == SubSeq(p, 1, Len(p) - 1)
Last(p) == p[Len(p)]

\* Path::starts_with: base is a prefix of p component by component.
StartsWith(p, base) ==
  Len(base) <= Len(p) /\ SubSeq(p, 1, Len(base)) = base

\* Path::strip_prefix, for a p that starts with base.
StripPrefix(p, base) == SubSeq(p, Len(base) + 1, Len(p))

\* Path::ends_with, for a one-component argument.
EndsWith(p, n) == Len(p) > 0 /\ Last(p) = n

\* Path::parent of an absolute path ("/" has none and stays "/").
Parent(p) == IF p = <<>> THEN <<>> ELSE Front(p)

\* The configured workspace root, /ws, and the places the model's trees use.
WorkspaceRoot == <<"ws">>
Proj == <<"ws", "p">>
Sibling == <<"wsx">>

(***************************************************************************)
(* The filesystem: a node for every path that may exist.                   *)
(***************************************************************************)
Universe ==
  { <<"ws">>, <<"ws", "p">>, <<"ws", "p", "a.txt">>, <<"ws", "p", "README.md">>,
    <<"ws", "p", "ABOUT">>, <<"ws", "p", ".hidden">>, <<"ws", "p", ".gitignore">>,
    <<"ws", "p", "d">>, <<"ws", "p", "d", "f.txt">>, <<"ws", "p", "l">>,
    <<"ws", "Q">>, <<"wsx">>, <<"wsx", "s.txt">> }

\* MAX_FILE_SIZE.
MAX_FILE_SIZE == 10 * 1024 * 1024

\* How many leading bytes is_binary_file inspects.
BINARY_PROBE == 1024

\* What metadata.len() reports for an ordinary directory.
DirLen == 4 * 1024

\* nul: the offset of the file's first NUL byte, -1 when it has none.
\* rules: the lines of an ignore-pattern file.  text: the lines of a text file.
\* perm: whether the process may read the file's content.
\* utf8: whether the file's bytes are valid UTF-8.
NoneNode ==
  [kind |-> "none", target |-> <<>>, len |-> 0, nul |-> -1, rules |-> <<>>,
   text |-> <<>>, perm |-> TRUE, utf8 |-> TRUE]
DirNode(n) == [NoneNode EXCEPT !.kind = "dir", !.len = n]
FileNode(n, z) == [NoneNode EXCEPT !.kind = "file", !.len = n, !.nul = z]
LinkNode(t) == [NoneNode EXCEPT !.kind = "link", !.target = t, !.len = Len(t)]
IgnoreNode(r) == [NoneNode EXCEPT !.kind = "file", !.len = 1, !.rules = r]
TextNode(t) == [NoneNode EXCEPT !.kind = "file", !.len = 1, !.text = t]
Unreadable(node) == [node EXCEPT !.perm = FALSE]
Garbled(node) == [node EXCEPT !.utf8 = FALSE]

NodeAt(p, f) ==
  IF p = <<>> THEN DirNode(DirLen)
  ELSE IF p \in DOMAIN f THEN f[p] ELSE NoneNode

\* One path resolution, following every symbolic link: cur is the canonical
\* directory reached so far, rest the components still to walk.
RECURSIVE Resolve(_, _, _, _)
Resolve(cur, rest, hops, f) ==
  IF rest = <<>> THEN [ok |-> TRUE, p |-> cur]
  ELSE
    LET c == Head(rest)
        r == Tail(rest)
        n == Append(cur, c)
        node == NodeAt(n, f)
    IN IF NodeAt(cur, f).kind # "dir" THEN [ok |-> FALSE, p |-> <<>>]
       ELSE IF c = ".." THEN Resolve(Parent(cur), r, hops, f)
       ELSE IF node.kind = "none" THEN [ok |-> FALSE, p |-> <<>>]
       ELSE IF node.kind = "link"
         THEN IF hops = 0 THEN [ok |-> FALSE, p |-> <<>>]
              ELSE Resolve(<<>>, node.target \o r, hops - 1, f)
       ELSE Resolve(n, r, hops, f)

\* Where a path leads on the filesystem.
RealPath(path, f) == Resolve(<<>>, path, MaxLinkHops, f)

\* A canonicalize that checks the path but hands it back unresolved.
canonicalize_unresolved(path, f) == [ok |-> RealPath(path, f).ok, p |-> path]

\* Path::canonicalize.
canonicalize(path, f) == RealPath(path, f)

\* Path::exists: the metadata of the path, links followed, can be read.
exists(path, f) == RealPath(path, f).ok

\* fs::symlink_metadata: the last component is not followed.
symlink_metadata(path, f) ==
  LET under(par, c) ==
        IF ~par.ok \/ NodeAt(par.p, f).kind # "dir"
          THEN [ok |-> FALSE, node |-> NoneNode]
        ELSE IF c = ".." THEN [ok |-> TRUE, node |-> NodeAt(Parent(par.p), f)]
        ELSE IF NodeAt(Append(par.p, c), f).kind = "none"
          THEN [ok |-> FALSE, node |-> NoneNode]
        ELSE [ok |-> TRUE, node |-> NodeAt(Append(par.p, c), f)]
  IN IF path = <<>> THEN [ok |-> TRUE, node |-> DirNode(DirLen)]
     ELSE under(RealPath(Front(path), f), Last(path))

\* Path::is_dir and Path::is_file: links followed.
is_dir(path, f) ==
  LET leads(c) == c.ok /\ NodeAt(c.p, f).kind = "dir" IN leads(RealPath(path, f))

is_file(path, f) ==
  LET leads(c) == c.ok /\ NodeAt(c.p, f).kind = "file" IN leads(RealPath(path, f))

\* fs::read and fs::read_to_string succeed on a path that leads to a regular
\* file the process may read.
readable(path, f) ==
  LET permitted(c) == c.ok /\ NodeAt(c.p, f).kind = "file" /\ NodeAt(c.p, f).perm
  IN permitted(RealPath(path, f))

\* fs::read_to_string succeeds when, besides, the bytes are valid UTF-8.
readable_text(path, f) ==
  LET decoded(c) ==
        c.ok /\ NodeAt(c.p, f).kind = "file" /\ NodeAt(c.p, f).perm /\ NodeAt(c.p, f).utf8
  IN decoded(RealPath(path, f))

\* The node whose bytes a read of path returns.
ContentOf(path, f) == NodeAt(RealPath(path, f).p, f)

(***************************************************************************)
(* The ignore-rule matcher.  A line of an ignore-pattern file is a rule    *)
(* for one name (pat), directory-only (pat/) or not, negated (!pat) or     *)
(* not, or a line the glob parser refuses (kind "bad").                    *)
(***************************************************************************)
Rule(n) == [kind |-> "rule", pat |-> n, dirOnly |-> FALSE, neg |-> FALSE]
DirRule(n) == [kind |-> "rule", pat |-> n, dirOnly |-> TRUE, neg |-> FALSE]
NegRule(n) == [kind |-> "rule", pat |-> n, dirOnly |-> FALSE, neg |-> TRUE]
BadLine == [kind |-> "bad", pat |-> "", dirOnly |-> FALSE, neg |-> FALSE]

\* get_gitignore: None when the file is absent, cannot be read, or holds a
\* line add_line refuses (the ? returns None from the whole function).
get_gitignore(project_path, f) ==
  LET gitignore_path == Append(project_path, ".gitignore")
      parsed(lines) ==
        IF \E i \in 1..Len(lines) : lines[i].kind = "bad"
          THEN [some |-> FALSE, rules |-> <<>>]
        ELSE [some |-> TRUE, rules |-> lines]
  IN IF ~exists(gitignore_path, f) THEN [some |-> FALSE, rules |-> <<>>]
     ELSE IF ~readable_text(gitignore_path, f) THEN [some |-> FALSE, rules |-> <<>>]
     ELSE parsed(ContentOf(gitignore_path, f).rules)

\* Whether one rule's glob matches the path: a pattern without a slash matches
\* the path's last component at any depth; a directory-only rule matches only
\* when the caller says the path is a directory.
RuleMatches(rule, rel, isdir) ==
  /\ Len(rel) > 0
  /\ Last(rel) = rule.pat
  /\ (rule.dirOnly => isdir)

\* Gitignore::matched(path, is_dir).is_ignore(): the last matching rule
\* decides, and only the path itself is tested, never its parents.
matched_is_ignore(rules, rel, isdir) ==
  LET M == {i \in 1..Len(rules) : RuleMatches(rules[i], rel, isdir)}
  IN M # {} /\ ~rules[CHOOSE i \in M : \A j \in M : j <= i].neg

(***************************************************************************)
(* The sandbox validator.                                                  *)
(***************************************************************************)
\* is_symlink: read_link succeeds exactly on a path whose last component,
\* not followed, is a symbolic link.
is_symlink(path, f) ==
  LET link(m) == m.ok /\ m.node.kind = "link"
  IN path # <<>> /\ Last(path) # ".." /\ link(symlink_metadata(path, f))

\* The component test of is_path_allowed: a dot-name other than .gitignore,
\* or ABOUT unless the path handed in ends with ABOUT.
ComponentRejected(name, path) ==
  \/ (StartsWithDot(name) /\ name # ".gitignore")
  \/ (name = "ABOUT" /\ ~EndsWith(path, "ABOUT"))

is_path_allowed(path, check_gitignore, workspace_root, f) ==
  LET ignored(gitignore, rel_to_project) ==
        gitignore.some /\ matched_is_ignore(gitignore.rules, rel_to_project, FALSE)
      within(canonical_path, rel_path, project_root) ==
        IF ~is_dir(project_root, f) THEN FALSE
        ELSE IF \E i \in 1..Len(rel_path) : ComponentRejected(rel_path[i], path)
          THEN FALSE
        ELSE IF canonical_path = project_root THEN TRUE
        ELSE IF check_gitignore
                /\ ignored(get_gitignore(project_root, f),
                           StripPrefix(canonical_path, project_root))
          THEN FALSE
        ELSE TRUE
      canonical(cp, cw) ==
        IF ~cp.ok THEN FALSE
        ELSE IF ~cw.ok THEN FALSE
        ELSE IF ~StartsWith(cp.p, cw.p) THEN FALSE
        ELSE IF cp.p = cw.p THEN TRUE
        ELSE within(cp.p, StripPrefix(cp.p, cw.p),
                    Append(cw.p, StripPrefix(cp.p, cw.p)[1]))
  IN IF ~exists(path, f) THEN FALSE
     ELSE IF is_symlink(path, f) THEN FALSE
     ELSE canonical(canonicalize(path, f), canonicalize(workspace_root, f))

(***************************************************************************)
(* Directory reading.                                                      *)
(***************************************************************************)
Reverse(s) == [i \in 1..Len(s) |-> s[Len(s) + 1 - i]]

\* The order in which the filesystem hands out names: unspecified, fixed for
\* an unchanged directory.  The model has two such orders.
BaseOrder ==
  <<"a.txt", "d", "README.md", "wsx", ".gitignore", "ABOUT", "p", "l",
    ".hidden", "Q", "f.txt", "ws", "s.txt", "r.txt", "sl", ".git", "wl">>

\* The entries WalkDir yields at depth 1 of path, as paths below path.
read_dir(path, rev, f) ==
  LET below(names) == [i \in 1..Len(names) |-> Append(path, names[i])]
      entries(c) ==
        IF ~c.ok \/ NodeAt(c.p, f).kind # "dir" THEN <<>>
        ELSE below(SelectSeq(IF rev THEN Reverse(BaseOrder) ELSE BaseOrder,
                             LAMBDA n : NodeAt(Append(c.p, n), f).kind # "none"))
  IN entries(RealPath(path, f))

\* A get_file_info whose size test is >= instead of >.
get_file_info_ge(path, workspace_root, f) ==
  LET none == [some |-> FALSE, name |-> "", path |-> <<>>, is_dir |-> FALSE, len |-> 0]
      relative(metadata, cp, cw) ==
        IF ~cp.ok THEN none
        ELSE IF ~cw.ok THEN none
        ELSE IF ~StartsWith(cp.p, cw.p) THEN none
        ELSE [some |-> TRUE, name |-> Last(path), path |-> StripPrefix(cp.p, cw.p),
              is_dir |-> metadata.node.kind = "dir", len |-> metadata.node.len]
      info(metadata) ==
        IF ~metadata.ok THEN none
        ELSE IF metadata.node.kind = "link" THEN none
        ELSE IF metadata.node.kind # "dir" /\ metadata.node.len >= MAX_FILE_SIZE THEN none
        ELSE IF path = <<>> \/ Last(path) = ".." THEN none
        ELSE relative(metadata, canonicalize(path, f), canonicalize(workspace_root, f))
  IN info(symlink_metadata(path, f))

\* get_file_info: None for a vanished path, a symbolic link, a regular file
\* over the size ceiling, or a path outside the workspace.
get_file_info(path, workspace_root, f) ==
  LET none == [some |-> FALSE, name |-> "", path |-> <<>>, is_dir |-> FALSE, len |-> 0]
      relative(metadata, cp, cw) ==
        IF ~cp.ok THEN none
        ELSE IF ~cw.ok THEN none
        ELSE IF ~StartsWith(cp.p, cw.p) THEN none
        ELSE [some |-> TRUE, name |-> Last(path), path |-> StripPrefix(cp.p, cw.p),
              is_dir |-> metadata.node.kind = "dir", len |-> metadata.node.len]
      info(metadata) ==
        IF ~metadata.ok THEN none
        ELSE IF metadata.node.kind = "link" THEN none
        ELSE IF metadata.node.kind # "dir" /\ metadata.node.len > MAX_FILE_SIZE THEN none
        ELSE IF path = <<>> \/ Last(path) = ".." THEN none
        ELSE relative(metadata, canonicalize(path, f), canonicalize(workspace_root, f))
  IN info(symlink_metadata(path, f))

\* A comparator that compares the names as they are, not lower-cased.
compare_entries_bytes(a, b) ==
  IF a.is_dir = b.is_dir THEN StrCmp(Chars(a.name), Chars(b.name))
  ELSE IF a.is_dir THEN "Less"
  ELSE "Greater"

\* The comparator handed to sort_by.
compare_entries(a, b) ==
  IF a.is_dir = b.is_dir
    THEN StrCmp(to_lowercase(Chars(a.name)), to_lowercase(Chars(b.name)))
  ELSE IF a.is_dir THEN "Less"
  ELSE "Greater"

\* slice::sort_by is a stable sort: an element goes after every element that
\* does not compare greater than it.
InsertSorted(sorted, x) ==
  LET at(k) == SubSeq(sorted, 1, k - 1) \o <<x>> \o SubSeq(sorted, k, Len(sorted))
      before(G) ==
        at(IF G = {} THEN Len(sorted) + 1 ELSE CHOOSE i \in G : \A j \in G : i <= j)
  IN before({i \in 1..Len(sorted) : compare_entries(sorted[i], x) = "Greater"})

RECURSIVE SortFrom(_, _)
SortFrom(sorted, rest) ==
  IF rest = <<>> THEN sorted
  ELSE SortFrom(InsertSorted(sorted, Head(rest)), Tail(rest))

sort_by(s) == SortFrom(<<>>, s)

\* A listing whose workspace-root branch keeps every entry.
listed_entries_unfiltered(path, check_gitignore, workspace_root, rev, f) ==
  LET keep(e) ==
        IF path = workspace_root THEN TRUE
        ELSE is_path_allowed(e, check_gitignore, workspace_root, f)
      infos(kept) == [i \in 1..Len(kept) |-> get_file_info(kept[i], workspace_root, f)]
  IN SelectSeq(infos(SelectSeq(read_dir(path, rev, f), keep)), LAMBDA r : r.some)

\* The entries a listing keeps, before it sorts them.
listed_entries(path, check_gitignore, workspace_root, rev, f) ==
  LET keep(e) ==
        IF path = workspace_root THEN is_dir(e, f)
        ELSE is_path_allowed(e, check_gitignore, workspace_root, f)
      infos(kept) == [i \in 1..Len(kept) |-> get_file_info(kept[i], workspace_root, f)]
  IN SelectSeq(infos(SelectSeq(read_dir(path, rev, f), keep)), LAMBDA r : r.some)

get_directory_contents(path, check_gitignore, workspace_root, rev, f) ==
  sort_by(listed_entries(path, check_gitignore, workspace_root, rev, f))

\* is_binary_file: a NUL byte among the first 1024 bytes, or a failed read.
is_binary_file(path, f) ==
  LET nul_in_probe(node) == node.nul >= 0 /\ node.nul < BINARY_PROBE
  IN IF readable(path, f) THEN nul_in_probe(ContentOf(path, f)) ELSE TRUE

is_project_root(path, workspace_root, f) ==
  LET direct_child(cp, cw) ==
        /\ cp.ok
        /\ cw.ok
        /\ StartsWith(cp.p, cw.p)
        /\ Len(StripPrefix(cp.p, cw.p)) = 1
        /\ is_dir(cp.p, f)
  IN direct_child(canonicalize(path, f), canonicalize(workspace_root, f))

(***************************************************************************)
(* The Markdown renderer.  A string of HTML is a sequence of atoms: an     *)
(* opening or closing tag or a piece of text.  Each atom carries where it  *)
(* came from (org: the Markdown document or a highlighted code block) and  *)
(* how often each sanitizer has passed over it.                            *)
(***************************************************************************)
Atom(k, v, org) == [k |-> k, v |-> v, org |-> org, doc |-> 0, code |-> 0]

\* format!("{}{}_END", placeholder_prefix, i)
Placeholder(i) ==
  CASE i = 0 -> "__CODE_BLOCK_PLACEHOLDER_0_END"
    [] i = 1 -> "__CODE_BLOCK_PLACEHOLDER_1_END"
    [] i = 2 -> "__CODE_BLOCK_PLACEHOLDER_2_END"
    [] i = 3 -> "__CODE_BLOCK_PLACEHOLDER_3_END"
    [] OTHER -> "__CODE_BLOCK_PLACEHOLDER_n_END"

\* The blocks of a Markdown document: a paragraph of one text, a raw HTML
\* tag, an indented code block, or a fenced code block with a language tag
\* and one text per line, closed by a fence or not.
Para(t) == [type |-> "para", lang |-> "", lines |-> <<t>>, closed |-> TRUE]
RawHtml(t) == [type |-> "html", lang |-> "", lines |-> <<t>>, closed |-> TRUE]
Indented(t) == [type |-> "indented", lang |-> "", lines |-> <<t>>, closed |-> TRUE]
Fence(lang, ls, closed) == [type |-> "fence", lang |-> lang, lines |-> ls, closed |-> closed]

Event(e, tag, text) == [e |-> e, tag |-> tag, text |-> text]

\* The events the parser gives for one block.  A fence that is not closed
\* runs to the end of the document, where the parser ends the code block.
BlockEvents(b) ==
  LET texts == [i \in 1..Len(b.lines) |-> Event("text", "", b.lines[i])]
  IN CASE b.type = "para" ->
            <<Event("start", "para", "")>> \o texts \o <<Event("end", "para", "")>>
       [] b.type = "html" -> <<Event("html", "", b.lines[1])>>
       [] b.type = "indented" ->
            <<Event("start", "indented", "")>> \o texts \o <<Event("end", "codeblock", "")>>
       [] b.type = "fence" ->
            <<Event("start", "fenced", b.lang)>> \o texts \o <<Event("end", "codeblock", "")>>

RECURSIVE ParseFrom(_, _)
ParseFrom(d, i) == IF i > Len(d) THEN <<>> ELSE BlockEvents(d[i]) \o ParseFrom(d, i + 1)

\* Parser::new_ext(content, options)
Parse(d) == ParseFrom(d, 1)

\* html::push_html of one event.
push_html(ev) ==
  CASE ev.e = "text" -> <<Atom("text", ev.text, "md")>>
    [] ev.e = "html" -> <<Atom("open", ev.text, "md")>>
    [] ev.e = "start" /\ ev.tag = "para" -> <<Atom("open", "p", "md")>>
    [] ev.e = "end" /\ ev.tag = "para" -> <<Atom("close", "p", "md")>>
    [] ev.e = "start" /\ ev.tag \in {"indented", "fenced"} ->
         <<Atom("open", "pre", "md"), Atom("open", "code", "md")>>
    [] ev.e = "end" /\ ev.tag = "codeblock" ->
         <<Atom("close", "code", "md"), Atom("close", "pre", "md")>>

\* The match on current_lang: the synthetic extension of a language tag.
extension_for(lang) ==
  CASE lang \in {"rust", "rs"} -> "rs"
    [] lang \in {"python", "py", "pyw", "pyx"} -> "py"
    [] OTHER -> "txt"

\* A tag with its attributes, and the tag alone.
SpanOf(ext) ==
  CASE ext = "rs" -> "span.rs"
    [] ext = "py" -> "span.py"
    [] OTHER -> "span.txt"

BaseTag(v) ==
  CASE v \in {"span.rs", "span.py", "span.txt"} -> "span"
    [] v \in {"div.dark", "div.light"} -> "div"
    [] v = "pre.style" -> "pre"
    [] v \in {"a.rel", "a.abs"} -> "a"
    [] OTHER -> v

\* highlight_code without line numbers: the dark and the light rendering,
\* each a styled pre holding one styled span per piece of text.
highlight_code(ext, content) ==
  LET spans(i) == <<Atom("open", SpanOf(ext), "code"), Atom("text", content[i], "code"),
                    Atom("close", "span", "code")>>
      RECURSIVE body(_)
      body(i) == IF i > Len(content) THEN <<>> ELSE spans(i) \o body(i + 1)
      themed == <<Atom("open", "pre.style", "code")>> \o body(1)
                  \o <<Atom("close", "pre", "code")>>
  IN <<Atom("open", "div.dark", "code")>> \o themed \o <<Atom("close", "div", "code")>>
       \o <<Atom("open", "div.light", "code")>> \o themed \o <<Atom("close", "div", "code")>>

\* AMMONIA_CODE_BUILDER.clean: div, span, pre and code stay; a div keeps its
\* class, a span its class and style, every other attribute goes.
CodeTags == {"div", "span", "pre", "code"}

code_clean(h) ==
  LET kept == SelectSeq(h, LAMBDA a : a.k = "text" \/ BaseTag(a.v) \in CodeTags)
  IN [i \in 1..Len(kept) |->
        [kept[i] EXCEPT
           !.v = IF kept[i].k = "text" \/ BaseTag(@) \in {"div", "span"} THEN @ ELSE BaseTag(@),
           !.code = @ + 1]]

\* AMMONIA_BUILDER.clean: the document-wide allow-list; a link keeps its
\* href, no tag keeps a class or a style.
DocTags == {"p", "pre", "code", "span", "div", "a"}

doc_clean(h) ==
  LET kept == SelectSeq(h, LAMBDA a : a.k = "text" \/ BaseTag(a.v) \in DocTags)
  IN [i \in 1..Len(kept) |->
        [kept[i] EXCEPT
           !.v = IF kept[i].k = "text" \/ BaseTag(@) = "a" THEN @ ELSE BaseTag(@),
           !.doc = @ + 1]]

\* str::replace(from, to), where from is one piece of text.
RECURSIVE replace(_, _, _)
replace(h, from, to) ==
  IF h = <<>> THEN <<>>
  ELSE IF Head(h).k = "text" /\ Head(h).v = from THEN to \o replace(Tail(h), from, to)
  ELSE <<Head(h)>> \o replace(Tail(h), from, to)

\* The two replace calls that root "./" references at base_path.
rewrite_links(h) ==
  [i \in 1..Len(h) |-> IF h[i].k = "open" /\ h[i].v = "a.rel"
                         THEN [h[i] EXCEPT !.v = "a.abs"] ELSE h[i]]

LogEntry(op, i) == [op |-> op, i |-> i]

\* The locals of render_markdown when its loop starts.
MdStart(d) ==
  [pc |-> "loop", events |-> Parse(d), html_output |-> <<>>, in_code_block |-> FALSE,
   current_code |-> <<>>, current_lang |-> "", code_blocks |-> <<>>,
   final_html |-> <<>>, i |-> 0, log |-> <<>>]

\* Event::Start(Tag::CodeBlock(CodeBlockKind::Fenced(lang)))
start_fence(m) ==
  [m EXCEPT !.events = Tail(@), !.in_code_block = TRUE,
            !.current_lang = Head(m.events).text, !.current_code = <<>>]

\* An end of block that emits the placeholder and drops the block.
end_fence_not_stored(m) ==
  [m EXCEPT !.events = Tail(@),
            !.html_output = Append(@, Atom("text", Placeholder(Len(m.code_blocks)), "md")),
            !.in_code_block = FALSE, !.current_code = <<>>, !.current_lang = ""]

\* Event::End(TagEnd::CodeBlock) if in_code_block
end_fence(m) ==
  LET highlighted == highlight_code(extension_for(m.current_lang), m.current_code)
      clean_highlighted == code_clean(highlighted)
      placeholder == Placeholder(Len(m.code_blocks))
  IN [m EXCEPT !.events = Tail(@),
               !.code_blocks = Append(@, clean_highlighted),
               !.html_output = Append(@, Atom("text", placeholder, "md")),
               !.in_code_block = FALSE, !.current_code = <<>>, !.current_lang = "",
               !.log = Append(@, LogEntry("code_clean", Len(m.code_blocks)))]

\* A capture that also serializes the text to the main output.
code_text_serialized(m) ==
  [m EXCEPT !.events = Tail(@), !.current_code = Append(@, Head(m.events).text),
            !.html_output = @ \o push_html(Head(m.events))]

\* Event::Text(text) if in_code_block
code_text(m) ==
  [m EXCEPT !.events = Tail(@), !.current_code = Append(@, Head(m.events).text)]

\* Every other event: html::push_html.
pass_through(m) ==
  [m EXCEPT !.events = Tail(@), !.html_output = @ \o push_html(Head(m.events))]

\* After the loop: AMMONIA_BUILDER.clean(&html_output).
sanitize(m) ==
  [m EXCEPT !.pc = "substitute", !.final_html = doc_clean(m.html_output), !.i = 0,
            !.log = Append(@, LogEntry("doc_clean", -1))]

\* A substitution that runs the document sanitizer over its result.
substitute_then_clean(m) ==
  [m EXCEPT !.final_html = doc_clean(replace(@, Placeholder(m.i), m.code_blocks[m.i + 1])),
            !.i = @ + 1,
            !.log = Append(@, LogEntry("subst", m.i))]

\* One iteration of the loop over code_blocks.
substitute(m) ==
  [m EXCEPT !.final_html = replace(@, Placeholder(m.i), m.code_blocks[m.i + 1]),
            !.i = @ + 1,
            !.log = Append(@, LogEntry("subst", m.i))]

\* The returned string.
finish(m) == [m EXCEPT !.pc = "done", !.final_html = rewrite_links(@)]

IsFenceStart(ev) == ev.e = "start" /\ ev.tag = "fenced"
IsCodeBlockEnd(ev) == ev.e = "end" /\ ev.tag = "codeblock"
IsText(ev) == ev.e = "text"

Looping == md.pc = "loop" /\ md.events # <<>>

StartFence ==
  /\ Looping /\ IsFenceStart(Head(md.events))
  /\ md' = start_fence(md)
  /\ UNCHANGED <<fs, readdir_rev, resp, doc>>

EndFence ==
  /\ Looping /\ ~IsFenceStart(Head(md.events))
  /\ IsCodeBlockEnd(Head(md.events)) /\ md.in_code_block
  /\ md' = end_fence(md)
  /\ UNCHANGED <<fs, readdir_rev, resp, doc>>

CodeText ==
  /\ Looping /\ IsText(Head(md.events)) /\ md.in_code_block
  /\ md' = code_text(md)
  /\ UNCHANGED <<fs, readdir_rev, resp, doc>>

PassThrough ==
  /\ Looping /\ ~IsFenceStart(Head(md.events))
  /\ ~(IsCodeBlockEnd(Head(md.events)) /\ md.in_code_block)
  /\ ~(IsText(Head(md.events)) /\ md.in_code_block)
  /\ md' = pass_through(md)
  /\ UNCHANGED <<fs, readdir_rev, resp, doc>>

Sanitize ==
  /\ md.pc = "loop" /\ md.events = <<>>
  /\ md' = sanitize(md)
  /\ UNCHANGED <<fs, readdir_rev, resp, doc>>

Substitute ==
  /\ md.pc = "substitute" /\ md.i < Len(md.code_blocks)
  /\ md' = substitute(md)
  /\ UNCHANGED <<fs, readdir_rev, resp, doc>>

Finish ==
  /\ md.pc = "substitute" /\ md.i = Len(md.code_blocks)
  /\ md' = finish(md)
  /\ UNCHANGED <<fs, readdir_rev, resp, doc>>

\* render_markdown as a function of the document.
RenderStep(m) ==
  IF m.pc = "loop" /\ m.events # <<>>
    THEN LET ev == Head(m.events)
         IN IF IsFenceStart(ev) THEN start_fence(m)
            ELSE IF IsCodeBlockEnd(ev) /\ m.in_code_block THEN end_fence(m)
            ELSE IF IsText(ev) /\ m.in_code_block THEN code_text(m)
            ELSE pass_through(m)
  ELSE IF m.pc = "loop" THEN sanitize(m)
  ELSE IF m.i < Len(m.code_blocks) THEN substitute(m)
  ELSE finish(m)

RECURSIVE RenderFrom(_)
RenderFrom(m) == IF m.pc = "done" THEN m.final_html ELSE RenderFrom(RenderStep(m))

render_markdown(d) == RenderFrom(MdStart(d))

\* The documents the renderer is given.
OpenBlocks ==
  { Para("hi"), Para(Placeholder(0)), RawHtml("blink"), RawHtml("a.rel"), Indented("fn"),
    Fence("rust", <<"fn">>, TRUE), Fence("rust", <<>>, TRUE),
    Fence("zzz", <<"fn", Placeholder(0)>>, TRUE),
    Fence("py", <<Placeholder(1)>>, TRUE) }

\* An unclosed fence takes everything after it: it is a document's last block.
LastBlocks ==
  OpenBlocks \cup { [b EXCEPT !.closed = FALSE] : b \in {x \in OpenBlocks : x.type = "fence"} }

Docs ==
  {<<>>} \cup
  UNION { { d \in [1..n -> LastBlocks] : \A k \in 1..(n - 1) : d[k].closed } :
            n \in 1..MaxBlocks }

(***************************************************************************)
(* What a request does to the filesystem, in order: every call of          *)
(* is_path_allowed with its answer, and every read of a file's content.    *)
(***************************************************************************)
AllowOp(path, check_gitignore, workspace_root, f) ==
  [op |-> "allow", path |-> path,
   ok |-> is_path_allowed(path, check_gitignore, workspace_root, f)]

ReadOp(path, f) == [op |-> "read", path |-> path, ok |-> readable(path, f)]

\* The validator calls of one get_directory_contents.
listing_trace(path, check_gitignore, workspace_root, rev, f) ==
  LET asked(all) ==
        [i \in 1..Len(all) |-> AllowOp(all[i], check_gitignore, workspace_root, f)]
  IN IF path = workspace_root THEN <<>> ELSE asked(read_dir(path, rev, f))

\* str::starts_with(char), str::trim and str::trim_start_matches(char), on bytes.
starts_with(s, b) == Len(s) > 0 /\ s[1] = b

IsWhitespace(b) == b \in {9, 32}

trim(s) ==
  LET cut(K) ==
        IF K = {} THEN <<>>
        ELSE SubSeq(s, CHOOSE i \in K : \A j \in K : i <= j,
                       CHOOSE i \in K : \A j \in K : j <= i)
  IN cut({i \in 1..Len(s) : ~IsWhitespace(s[i])})

trim_start_matches(s, b) ==
  LET cut(K) ==
        IF K = {} THEN <<>> ELSE SubSeq(s, CHOOSE i \in K : \A j \in K : i <= j, Len(s))
  IN cut({i \in 1..Len(s) : s[i] # b})

NoString == [some |-> FALSE, s |-> ""]
SomeString(s) == [some |-> TRUE, s |-> s]

\* parse_about_file: the tags of the lines that start with '#' (35), and the
\* first line that does not and is not blank.
parse_about_file(path, f) ==
  LET sentence(lines, K) ==
        IF K = {} THEN NoString
        ELSE SomeString(Str(trim(Chars(lines[CHOOSE i \in K : \A j \in K : i <= j]))))
      tags(tag_lines) ==
        [i \in 1..Len(tag_lines) |->
           Str(trim(trim_start_matches(Chars(tag_lines[i]), 35)))]
      parsed(lines) ==
        [some |-> TRUE,
         tags |-> tags(SelectSeq(lines, LAMBDA l : starts_with(Chars(l), 35))),
         about_sentence |->
           sentence(lines, {i \in 1..Len(lines) :
                              /\ ~starts_with(Chars(lines[i]), 35)
                              /\ trim(Chars(lines[i])) # <<>>})]
  IN IF ~readable_text(path, f) THEN [some |-> FALSE, tags |-> <<>>, about_sentence |-> NoString]
     ELSE parsed(ContentOf(path, f).text)

\* The Markdown document a text is: a paragraph for each of its lines (the
\* texts of the model hold one line to a paragraph).
markdown_of(lines) == [i \in 1..Len(lines) |-> Para(lines[i])]

NoHtml == [some |-> FALSE, html |-> <<>>]
SomeHtml(h) == [some |-> TRUE, html |-> h]

\* get_project_content returns (content, tags, source_file, about_sentence).
\* content_from is the file whose text became the content, tags_from the
\* file the tags were read from (<<>>: none).
NoAbout ==
  [content |-> NoHtml, tags |-> <<>>, source_file |-> "", about_sentence |-> NoString,
   content_from |-> <<>>, tags_from |-> <<>>]

\* A choice of content that prefers the descriptor's summary to the README.
about_content_summary_first(content, parsed) ==
  IF parsed.some /\ parsed.about_sentence.some
    THEN SomeHtml(render_markdown(markdown_of(<<parsed.about_sentence.s>>)))
  ELSE content

\* if content.is_none() { content = about_sent.map(render_markdown) }
about_content(content, parsed) ==
  IF content.some THEN content
  ELSE IF parsed.some /\ parsed.about_sentence.some
    THEN SomeHtml(render_markdown(markdown_of(<<parsed.about_sentence.s>>)))
  ELSE NoHtml

get_project_content(project_path, workspace_root, f) ==
  LET readme_path == Append(project_path, "README.md")
      about_path == Append(project_path, "ABOUT")
      found(readme_read, parsed, about_from, trace) ==
        [about |->
           [content |->
              about_content(
                IF readme_read
                  THEN SomeHtml(render_markdown(markdown_of(ContentOf(readme_path, f).text)))
                ELSE NoHtml,
                parsed),
            tags |-> parsed.tags,
            source_file |->
              IF readme_read THEN "README.md"
              ELSE IF parsed.some THEN "ABOUT"
              ELSE "",
            about_sentence |-> parsed.about_sentence,
            content_from |->
              IF readme_read THEN canonicalize(readme_path, f).p
              ELSE IF parsed.some /\ parsed.about_sentence.some THEN about_from
              ELSE <<>>,
            tags_from |-> IF parsed.some THEN about_from ELSE <<>>],
         trace |-> trace]
      about(readme_read, about_exists, trace) ==
        found(readme_read,
              IF about_exists THEN parse_about_file(about_path, f)
              ELSE [some |-> FALSE, tags |-> <<>>, about_sentence |-> NoString],
              canonicalize(about_path, f).p,
              trace \o (IF about_exists THEN <<ReadOp(about_path, f)>> ELSE <<>>))
      readme(readme_checked, allowed) ==
        about(readme_checked /\ allowed.ok /\ readable_text(readme_path, f),
              exists(about_path, f),
              (IF readme_checked THEN <<allowed>> ELSE <<>>)
                \o (IF readme_checked /\ allowed.ok THEN <<ReadOp(readme_path, f)>> ELSE <<>>))
  IN readme(exists(readme_path, f), AllowOp(readme_path, TRUE, workspace_root, f))

\* create_zip_file: the entries WalkDir yields, the root first, links not followed.
RECURSIVE Walk(_, _, _)
Walk(path, rev, f) ==
  LET sub(e) == IF symlink_metadata(e, f).node.kind = "dir" THEN Walk(e, rev, f) ELSE <<e>>
      RECURSIVE cat(_, _)
      cat(kids, i) == IF i > Len(kids) THEN <<>> ELSE sub(kids[i]) \o cat(kids, i + 1)
  IN <<path>> \o cat(read_dir(path, rev, f), 1)

\* The loop of create_zip_file without its test of the name ABOUT.
zip_skips_about_kept(e, directory_path, workspace_root, f) ==
  \/ ~is_path_allowed(e, TRUE, workspace_root, f)
  \/ StripPrefix(e, directory_path) = <<>>
  \/ ~is_file(e, f)

\* One iteration of the loop of create_zip_file on the walked entry e.
zip_skips(e, directory_path, workspace_root, f) ==
  \/ EndsWith(e, "ABOUT")
  \/ ~is_path_allowed(e, TRUE, workspace_root, f)
  \/ StripPrefix(e, directory_path) = <<>>
  \/ ~is_file(e, f)

\* The loop walks and tests the entries on the filesystem f and reads their
\* content on g.
RECURSIVE zip_loop(_, _, _, _, _, _)
zip_loop(walk, acc, directory_path, workspace_root, f, g) ==
  LET entry(e, asked) ==
        IF zip_skips(e, directory_path, workspace_root, f)
          THEN zip_loop(Tail(walk),
                        [acc EXCEPT !.trace = @ \o asked],
                        directory_path, workspace_root, f, g)
        ELSE IF ~readable(e, g)
          THEN [acc EXCEPT !.some = FALSE, !.trace = @ \o asked \o <<ReadOp(e, g)>>]
        ELSE zip_loop(Tail(walk),
                      [acc EXCEPT !.entries = Append(@, StripPrefix(e, directory_path)),
                                  !.trace = @ \o asked \o <<ReadOp(e, g)>>],
                      directory_path, workspace_root, f, g)
  IN IF walk = <<>> THEN acc
     ELSE entry(Head(walk),
                IF EndsWith(Head(walk), "ABOUT") THEN <<>>
                ELSE <<AllowOp(Head(walk), TRUE, workspace_root, f)>>)

create_zip_file_at(directory_path, workspace_root, rev, f, g) ==
  zip_loop(Walk(directory_path, rev, f),
           [some |-> TRUE, entries |-> <<>>, trace |-> <<>>],
           directory_path, workspace_root, f, g)

create_zip_file(directory_path, workspace_root, rev, f) ==
  create_zip_file_at(directory_path, workspace_root, rev, f, f)

(***************************************************************************)
(* The request handlers.  A result holds the HTTP status, which page or    *)
(* body was produced (view), the listing shown, the archive's entry names, *)
(* the project's "about" data and the request's filesystem trace.          *)
(***************************************************************************)
Result(status, view, trace) ==
  [status |-> status, view |-> view, trace |-> trace, contents |-> <<>>,
   entries |-> <<>>, about |-> NoAbout]

\* A request takes time: at names the filesystem each of its steps sees, in
\* the order in which the handlers take them.  check: canonicalize,
\* is_path_allowed, is_symlink; listing: the choice and the listing of the
\* current directory; size: download_file's symlink_metadata; kind: the
\* is_dir test that picks the branch; metadata: view_path's symlink_metadata;
\* contents: the directory's own listing or walk; probe: is_binary_file;
\* read: the content reads; info: get_file_info.
Phases ==
  <<"check", "listing", "size", "kind", "metadata", "contents", "probe", "read", "info">>

\* Every step sees the filesystem f.
Still(f) == [i \in DOMAIN Phases |-> f]

Phase(ph) == CHOOSE i \in DOMAIN Phases : Phases[i] = ph

download_file_at(url, workspace_root, rev, at) ==
  LET archive(zip, t0) ==
        IF zip.some
          THEN [Result(200, "zip", t0 \o zip.trace) EXCEPT !.entries = zip.entries]
        ELSE Result(500, "error", t0 \o zip.trace)
      file(canonical_path, t1) ==
        IF ~readable(canonical_path, at[Phase("read")]) THEN Result(404, "error", t1)
        ELSE Result(200, "raw", t1)
      sized(canonical_path, metadata, t0) ==
        IF ~metadata.ok THEN Result(404, "error", t0)
        ELSE IF metadata.node.len > MAX_FILE_SIZE THEN Result(403, "error", t0)
        ELSE IF is_dir(canonical_path, at[Phase("kind")])
          THEN archive(create_zip_file_at(canonical_path, workspace_root, rev,
                                          at[Phase("contents")], at[Phase("read")]), t0)
        ELSE file(canonical_path, t0 \o <<ReadOp(canonical_path, at[Phase("read")])>>)
      validated(canonical_path, allowed) ==
        IF ~allowed.ok THEN Result(404, "error", <<allowed>>)
        ELSE IF is_symlink(canonical_path, at[Phase("check")])
          THEN Result(403, "error", <<allowed>>)
        ELSE sized(canonical_path,
                   symlink_metadata(canonical_path, at[Phase("size")]), <<allowed>>)
      resolved(cp) ==
        IF ~cp.ok THEN Result(404, "error", <<>>)
        ELSE validated(cp.p, AllowOp(cp.p, TRUE, workspace_root, at[Phase("check")]))
  IN resolved(canonicalize(workspace_root \o url, at[Phase("check")]))

\* GET /download/{path}
download_file(url, workspace_root, rev, f) ==
  download_file_at(url, workspace_root, rev, Still(f))

\* GET /{path}
view_path_at(url, workspace_root, rev, at) ==
  LET project_page(contents, t4, project) ==
        [Result(200, "project", t4 \o project.trace) EXCEPT
           !.contents = contents, !.about = project.about]
      directory(canonical_path, contents, t4) ==
        IF ~is_project_root(canonical_path, workspace_root, at[Phase("read")])
          THEN [Result(200, "dir", t4) EXCEPT !.contents = contents]
        ELSE project_page(contents, t4,
                          get_project_content(canonical_path, workspace_root,
                                              at[Phase("read")]))
      file(canonical_path, dir_contents, metadata, t1, t3) ==
        IF ~metadata.ok THEN Result(404, "error", t1)
        ELSE IF metadata.node.len > MAX_FILE_SIZE THEN Result(403, "error", t1)
        ELSE IF is_binary_file(canonical_path, at[Phase("probe")])
          THEN Result(400, "error", t1 \o <<ReadOp(canonical_path, at[Phase("probe")])>>)
        ELSE IF ~readable_text(canonical_path, at[Phase("read")]) THEN Result(404, "error", t3)
        ELSE IF ~get_file_info(canonical_path, workspace_root, at[Phase("info")]).some
          THEN Result(404, "error", t3)
        ELSE [Result(200, "file", t3) EXCEPT !.contents = dir_contents]
      shown(canonical_path, showing_dir, dir_contents, t1) ==
        IF ~showing_dir
          THEN file(canonical_path, dir_contents,
                    symlink_metadata(canonical_path, at[Phase("metadata")]), t1,
                    t1 \o <<ReadOp(canonical_path, at[Phase("probe")]),
                            ReadOp(canonical_path, at[Phase("read")])>>)
        ELSE directory(canonical_path,
                       get_directory_contents(canonical_path, TRUE, workspace_root, rev,
                                              at[Phase("contents")]),
                       t1 \o listing_trace(canonical_path, TRUE, workspace_root, rev,
                                           at[Phase("contents")]))
      listed(canonical_path, current_dir, t0) ==
        shown(canonical_path, is_dir(canonical_path, at[Phase("kind")]),
              get_directory_contents(current_dir, TRUE, workspace_root, rev,
                                     at[Phase("listing")]),
              t0 \o listing_trace(current_dir, TRUE, workspace_root, rev,
                                  at[Phase("listing")]))
      located(canonical_path, in_dir, t0) ==
        listed(canonical_path,
               IF in_dir THEN canonical_path ELSE Parent(canonical_path), t0)
      validated(canonical_path, allowed) ==
        IF ~allowed.ok THEN Result(404, "error", <<allowed>>)
        ELSE IF is_symlink(canonical_path, at[Phase("check")])
          THEN Result(403, "error", <<allowed>>)
        ELSE located(canonical_path, is_dir(canonical_path, at[Phase("listing")]),
                     <<allowed>>)
      resolved(cp) ==
        IF ~cp.ok THEN Result(404, "error", <<>>)
        ELSE validated(cp.p, AllowOp(cp.p, TRUE, workspace_root, at[Phase("check")]))
  IN IF url = <<>>
       THEN [Result(200, "index", <<>>) EXCEPT
               !.contents = get_directory_contents(workspace_root, FALSE,
                                                   workspace_root, rev,
                                                   at[Phase("contents")])]
     ELSE resolved(canonicalize(workspace_root \o url, at[Phase("check")]))

\* GET /{path}
view_path(url, workspace_root, rev, f) == view_path_at(url, workspace_root, rev, Still(f))

(***************************************************************************)
(* The trees the model starts from.  Each family varies the nodes one      *)
(* group of claims is about and leaves the others at their plain values.   *)
(***************************************************************************)
SmallFile == FileNode(1, -1)

MkFs(k) ==
  [p \in Universe |->
     CASE p = <<"ws">>                 -> DirNode(DirLen)
       [] p = <<"ws", "p">>            -> DirNode(DirLen)
       [] p = <<"ws", "p", "a.txt">>   -> k.a
       [] p = <<"ws", "p", "README.md">> -> k.readme
       [] p = <<"ws", "p", "ABOUT">>   -> k.about
       [] p = <<"ws", "p", ".hidden">> -> k.hidden
       [] p = <<"ws", "p", ".gitignore">> -> k.ign
       [] p = <<"ws", "p", "d">>       -> k.d
       [] p = <<"ws", "p", "d", "f.txt">> ->
            IF k.d.kind = "dir" THEN SmallFile ELSE NoneNode
       [] p = <<"ws", "p", "l">>       -> k.l
       [] p = <<"ws", "Q">>            -> k.q
       [] p = <<"wsx">>                -> DirNode(DirLen)
       [] p = <<"wsx", "s.txt">>       -> SmallFile]

Plain ==
  [a |-> SmallFile, readme |-> NoneNode, about |-> NoneNode, hidden |-> NoneNode,
   ign |-> NoneNode, d |-> DirNode(DirLen), l |-> NoneNode, q |-> NoneNode]

\* Symbolic links, inside and out of the workspace.
LinkFamily ==
  { MkFs([Plain EXCEPT !.l = l, !.about = ab, !.readme = rd, !.hidden = h]) :
      l \in {NoneNode, LinkNode(<<"ws", "p", "d">>), LinkNode(<<"wsx">>),
             LinkNode(<<"ws", "p", "a.txt">>)},
      ab \in {NoneNode, SmallFile, LinkNode(<<"wsx", "s.txt">>)},
      rd \in {NoneNode, SmallFile, LinkNode(<<"wsx", "s.txt">>)},
      h \in {NoneNode, SmallFile} }

\* File sizes around the ceiling, text and binary.
SizeFamily ==
  { MkFs([Plain EXCEPT !.a = a, !.d = d, !.readme = rd]) :
      a \in {FileNode(n, z) : n \in {MAX_FILE_SIZE, MAX_FILE_SIZE + 1},
                              z \in {-1, 0}},
      d \in {DirNode(DirLen), DirNode(MAX_FILE_SIZE + 1)},
      rd \in {NoneNode, SmallFile, FileNode(MAX_FILE_SIZE + 1, -1)} }

\* Which files a project holds, and its ignore-pattern file.
TreeFamily ==
  { MkFs([Plain EXCEPT !.a = a, !.d = d, !.about = ab, !.hidden = h, !.ign = g]) :
      a \in {NoneNode, SmallFile},
      d \in {NoneNode, DirNode(DirLen)},
      ab \in {NoneNode, SmallFile},
      h \in {NoneNode, SmallFile},
      g \in {NoneNode, IgnoreNode(<<Rule("a.txt")>>), IgnoreNode(<<DirRule("d")>>),
             IgnoreNode(<<Rule("f.txt"), BadLine>>),
             IgnoreNode(<<Rule("a.txt"), NegRule("a.txt")>>)} }

\* Which entries the listed directories hold: names in both cases, files and
\* directories.
ListFamily ==
  { MkFs([Plain EXCEPT !.a = a, !.d = d, !.about = ab, !.readme = rd, !.q = q]) :
      a \in {NoneNode, SmallFile},
      d \in {NoneNode, DirNode(DirLen)},
      ab \in {NoneNode, SmallFile},
      rd \in {NoneNode, SmallFile},
      q \in {NoneNode, DirNode(DirLen)} }

FsChoices == LinkFamily \cup SizeFamily \cup TreeFamily \cup ListFamily

\* The paths handed to is_path_allowed, and the URL paths of the requests.
Probes ==
  Universe \cup
  { <<"ws", "p", "l", "f.txt">>, <<"ws", "p", "l", "s.txt">>,
    <<"ws", "..">>, <<"ws", "..", "wsx">>, <<"ws", "..", "wsx", "s.txt">>,
    <<"ws", "p", "..">>, <<"ws", "p", "d", "..", "a.txt">>,
    <<"ws", "p", "..", "..", "wsx", "s.txt">>, <<"ws", "q">> }

Urls ==
  { StripPrefix(p, WorkspaceRoot) : p \in {q \in Probes : StartsWith(q, WorkspaceRoot)} }

ListDirs == { <<"ws">>, <<"ws", "p">>, <<"ws", "p", "d">>, <<"ws", "p", "l">> }

(***************************************************************************)
(* The state: the filesystem, the directory order, and the last request    *)
(* with its response.                                                      *)
(***************************************************************************)
NoResp ==
  [op |-> "idle", path |-> <<>>, flag |-> FALSE, allowed |-> FALSE,
   status |-> 0, view |-> "", trace |-> <<>>, contents |-> <<>>,
   entries |-> <<>>, about |-> NoAbout, again |-> <<>>,
   change |-> "none", victim |-> <<>>, switch |-> 0, root |-> <<>>]

Answer(op, path, r) ==
  [NoResp EXCEPT !.op = op, !.path = path, !.flag = TRUE, !.status = r.status,
                 !.view = r.view, !.trace = r.trace, !.contents = r.contents,
                 !.entries = r.entries, !.about = r.about]

\* A direct call of the validator.
CheckPath(path, flag) ==
  /\ resp.op = "idle"
  /\ resp' = [NoResp EXCEPT !.op = "check", !.path = path, !.flag = flag,
                !.allowed = is_path_allowed(path, flag, WorkspaceRoot, fs)]
  /\ UNCHANGED <<fs, readdir_rev, doc, md>>

ViewPath(url) ==
  /\ resp.op = "idle"
  /\ resp' = Answer("view", url, view_path(url, WorkspaceRoot, readdir_rev, fs))
  /\ UNCHANGED <<fs, readdir_rev, doc, md>>

DownloadFile(url) ==
  /\ resp.op = "idle"
  /\ resp' = Answer("download", url, download_file(url, WorkspaceRoot, readdir_rev, fs))
  /\ UNCHANGED <<fs, readdir_rev, doc, md>>

\* A call of get_directory_contents, and a second call on the unchanged directory.
ListDir(dir, flag) ==
  /\ resp.op = "idle"
  /\ resp' = [NoResp EXCEPT !.op = "list", !.path = dir, !.flag = flag,
                !.contents = get_directory_contents(dir, flag, WorkspaceRoot,
                                                    readdir_rev, fs)]
  /\ UNCHANGED <<fs, readdir_rev, doc, md>>

ListAgain ==
  /\ resp.op = "list"
  /\ resp' = [resp EXCEPT !.op = "relist",
                !.again = get_directory_contents(resp.path, resp.flag, WorkspaceRoot,
                                                 readdir_rev, fs)]
  /\ UNCHANGED <<fs, readdir_rev, doc, md>>

\* What another process does to the tree while a request runs: it removes
\* the node at victim with everything below it, or withdraws the permission
\* to read it.
Remove(f, victim) ==
  [p \in DOMAIN f |-> IF StartsWith(p, victim) THEN NoneNode ELSE f[p]]

Revoke(f, victim) ==
  [f EXCEPT ![victim] = IF @.kind = "file" THEN Unreadable(@) ELSE @]

Changed(f, change, victim) ==
  IF change = "remove" THEN Remove(f, victim) ELSE Revoke(f, victim)

\* The steps before the k-th see f, the k-th and the later ones see g.
Timeline(f, g, k) == [i \in DOMAIN Phases |-> IF i < k THEN f ELSE g]

\* GET /{path} while the tree changes under the request.
RacedView(url, change, victim, k) ==
  /\ resp.op = "idle"
  /\ Changed(fs, change, victim) # fs
  /\ fs' = Changed(fs, change, victim)
  /\ resp' = [Answer("view", url,
                     view_path_at(url, WorkspaceRoot, readdir_rev, Timeline(fs, fs', k)))
                EXCEPT !.change = change, !.victim = victim, !.switch = k]
  /\ UNCHANGED <<readdir_rev, doc, md>>

\* GET /download/{path} while the tree changes under the request.
RacedDownload(url, change, victim, k) ==
  /\ resp.op = "idle"
  /\ Changed(fs, change, victim) # fs
  /\ fs' = Changed(fs, change, victim)
  /\ resp' = [Answer("download", url,
                     download_file_at(url, WorkspaceRoot, readdir_rev,
                                      Timeline(fs, fs', k)))
                EXCEPT !.change = change, !.victim = victim, !.switch = k]
  /\ UNCHANGED <<readdir_rev, doc, md>>

\* A call of get_directory_contents by a server whose configured root is root.
ListRoot(root, dir, flag) ==
  /\ resp.op = "idle"
  /\ resp' = [NoResp EXCEPT !.op = "root", !.path = dir, !.flag = flag, !.root = root,
                !.contents = get_directory_contents(dir, flag, root, readdir_rev, fs)]
  /\ UNCHANGED <<fs, readdir_rev, doc, md>>

\* The response is sent and the request's data dropped.
Respond ==
  /\ resp.op \notin {"idle", "list"}
  /\ resp' = NoResp
  /\ UNCHANGED <<fs, readdir_rev, doc, md>>

NoDoc == <<>>
MdIdle == [pc |-> "idle"]

Init ==
  /\ fs \in FsChoices
  /\ readdir_rev \in BOOLEAN
  /\ resp = NoResp
  /\ doc = NoDoc
  /\ md = MdIdle

Next ==
  \/ \E path \in Probes, flag \in BOOLEAN : CheckPath(path, flag)
  \/ \E url \in Urls : ViewPath(url)
  \/ \E url \in Urls : DownloadFile(url)
  \/ \E dir \in ListDirs, flag \in BOOLEAN : ListDir(dir, flag)
  \/ ListAgain
  \/ Respond

Spec == Init /\ [][Next]_vars

\* The renderer alone, on every document, over a plain filesystem.
InitMd ==
  /\ fs = MkFs(Plain)
  /\ readdir_rev = FALSE
  /\ resp = NoResp
  /\ doc \in Docs
  /\ md = MdStart(doc)

NextMd ==
  \/ StartFence
  \/ EndFence
  \/ CodeText
  \/ PassThrough
  \/ Sanitize
  \/ Substitute
  \/ Finish

SpecMd == InitMd /\ [][NextMd]_vars

\* The project page over every descriptor file and README.
AboutLines == {"#tag", "  #tag", "# t2", "sum", " sum ", "more", "", "  "}

AboutTexts == UNION { [1..n -> AboutLines] : n \in 0..MaxLines }

AboutFamily ==
  { MkFs([Plain EXCEPT !.about = ab, !.readme = rd]) :
      ab \in {NoneNode} \cup {TextNode(t) : t \in AboutTexts},
      rd \in {NoneNode, TextNode(<<"more">>), LinkNode(<<"wsx", "s.txt">>),
              DirNode(DirLen)} }

InitAbout ==
  /\ fs \in AboutFamily
  /\ readdir_rev = FALSE
  /\ resp = NoResp
  /\ doc = NoDoc
  /\ md = MdIdle

NextAbout ==
  \/ \E url \in {<<"p">>} : ViewPath(url)
  \/ Respond

SpecAbout == InitAbout /\ [][NextAbout]_vars

\* Requests for a file and for a directory, undisturbed and raced, over
\* files that differ in size, content and permission.
ReadFamily ==
  { MkFs([Plain EXCEPT !.a = a]) :
      a \in {FileNode(n, z) : n \in {MAX_FILE_SIZE, MAX_FILE_SIZE + 1},
                              z \in {-1, 0, BINARY_PROBE - 1, BINARY_PROBE}}
          \cup {Garbled(SmallFile), Garbled(FileNode(MAX_FILE_SIZE + 1, -1))} }

ReadUrls == { <<"p", "a.txt">>, <<"p", "d">>, <<"p", "d", "f.txt">>, <<"p", "x">> }

Victims == { <<"ws", "p", "a.txt">>, <<"ws", "p", "d">>, <<"ws", "p", "d", "f.txt">> }

Changes == {"remove", "revoke"}

InitRead ==
  /\ fs \in ReadFamily
  /\ readdir_rev = FALSE
  /\ resp = NoResp
  /\ doc = NoDoc
  /\ md = MdIdle

NextRead ==
  \/ \E url \in ReadUrls : ViewPath(url)
  \/ \E url \in ReadUrls : DownloadFile(url)
  \/ \E url \in ReadUrls, change \in Changes, victim \in Victims, k \in DOMAIN Phases :
        RacedView(url, change, victim, k)
  \/ \E url \in ReadUrls, change \in Changes, victim \in Victims, k \in DOMAIN Phases :
        RacedDownload(url, change, victim, k)
  \/ Respond

SpecRead == InitRead /\ [][NextRead]_vars

\* Listings of the workspace root under both of its spellings: /wl is a
\* link to /ws.  The root holds projects, a regular file, a dot-named
\* directory and a link.
RootUniverse ==
  Universe \cup { <<"wl">>, <<"ws", "r.txt">>, <<"ws", ".git">>, <<"ws", "sl">> }

MkRoot(k) ==
  [p \in RootUniverse |->
     CASE p = <<"wl">>           -> LinkNode(<<"ws">>)
       [] p = <<"ws", "r.txt">>  -> k.r
       [] p = <<"ws", ".git">>   -> k.git
       [] p = <<"ws", "sl">>     -> k.sl
       [] OTHER                  -> MkFs([Plain EXCEPT !.q = k.q])[p]]

RootFamily ==
  { MkRoot([r |-> r, git |-> g, sl |-> l, q |-> q]) :
      r \in {NoneNode, SmallFile},
      g \in {NoneNode, DirNode(DirLen)},
      l \in {NoneNode, LinkNode(<<"ws", "p">>), LinkNode(<<"wsx">>)},
      q \in {NoneNode, DirNode(DirLen)} }

RootSpellings == { <<"ws">>, <<"wl">> }

RootDirs == RootSpellings \cup { <<"ws", "p">>, <<"wl", "p">> }

InitRoot ==
  /\ fs \in RootFamily
  /\ readdir_rev \in BOOLEAN
  /\ resp = NoResp
  /\ doc = NoDoc
  /\ md = MdIdle

NextRoot ==
  \/ \E root \in RootSpellings, dir \in RootDirs, flag \in BOOLEAN :
        ListRoot(root, dir, flag)
  \/ Respond

SpecRoot == InitRoot /\ [][NextRoot]_vars

\* Projects with a directory that is hidden or named by an ignore rule, and
\* files below it.
DeepUniverse == Universe \cup { <<"ws", "p", ".hidden", "f.txt">> }

MkDeep(k) ==
  [p \in DeepUniverse |->
     IF p = <<"ws", "p", ".hidden", "f.txt">>
       THEN (IF k.hidden.kind = "dir" THEN SmallFile ELSE NoneNode)
     ELSE MkFs(k)[p]]

DeepFamily ==
  { MkDeep([Plain EXCEPT !.a = a, !.hidden = h, !.ign = g]) :
      a \in {NoneNode, SmallFile},
      h \in {NoneNode, DirNode(DirLen)},
      g \in {NoneNode, IgnoreNode(<<Rule("d")>>), IgnoreNode(<<DirRule("d")>>),
             IgnoreNode(<<Rule("f.txt")>>), IgnoreNode(<<Rule("d"), NegRule("d")>>)} }

DeepProbes ==
  { <<"ws", "p">>, <<"ws", "p", "a.txt">>, <<"ws", "p", "d">>,
    <<"ws", "p", "d", "f.txt">>, <<"ws", "p", ".hidden">>,
    <<"ws", "p", ".hidden", "f.txt">> }

DeepUrls == { StripPrefix(p, WorkspaceRoot) : p \in DeepProbes }

InitDeep ==
  /\ fs \in DeepFamily
  /\ readdir_rev \in BOOLEAN
  /\ resp = NoResp
  /\ doc = NoDoc
  /\ md = MdIdle

NextDeep ==
  \/ \E path \in DeepProbes, flag \in BOOLEAN : CheckPath(path, flag)
  \/ \E url \in DeepUrls : ViewPath(url)
  \/ \E url \in DeepUrls : DownloadFile(url)
  \/ Respond

SpecDeep == InitDeep /\ [][NextDeep]_vars

(***************************************************************************)
(* The claims about the sandbox validator and the handlers.                *)
(***************************************************************************)
\* p is root or lies below it, component by component.
IsWithin(p, root) ==
  \/ p = root
  \/ (Len(p) > Len(root) /\ \A i \in 1..Len(root) : p[i] = root[i])

\* The path exists and leads out of the workspace.
Outside(path) ==
  /\ RealPath(path, fs).ok
  /\ ~IsWithin(RealPath(path, fs).p, RealPath(WorkspaceRoot, fs).p)

\* Some component of the path, not followed, is a symbolic link.
HasLinkComponent(path) ==
  \E k \in 1..Len(path) :
    LET m == symlink_metadata(SubSeq(path, 1, k), fs)
    IN m.ok /\ m.node.kind = "link"

\* C1: a path whose canonical form is neither the canonical workspace root
\* nor below it -- reached directly, by "..", through a symbolic link or in
\* a sibling directory whose name starts with the root's name -- is
\* rejected by is_path_allowed, with ignore enforcement on and off.
C1_OutsideNeverAllowed ==
  (resp.op = "check" /\ Outside(resp.path)) => ~resp.allowed

\* C1's case: the validator was asked about /ws/p/l/s.txt where l links to
\* the sibling directory /wsx.
C1_Witness ==
  /\ resp.op = "check"
  /\ resp.path = <<"ws", "p", "l", "s.txt">>
  /\ Outside(resp.path)
  /\ RealPath(resp.path, fs).p = <<"wsx", "s.txt">>

\* C2: a path that passes through a symbolic link at any component is
\* rejected by is_path_allowed even when it leads into the workspace, and a
\* view or download request whose URL path passes through one ends in 404.
C2_NoLinkInChain ==
  /\ (resp.op = "check" /\ exists(resp.path, fs) /\ HasLinkComponent(resp.path))
       => ~resp.allowed
  /\ (resp.op \in {"view", "download"} /\ HasLinkComponent(WorkspaceRoot \o resp.path))
       => resp.status = 404

DescriptorFile == <<"ws", "p", "ABOUT">>

\* C3: the descriptor file ABOUT of a project is rejected by is_path_allowed,
\* is in no listing, and a view or download request for it ends in 404.
C3_DescriptorNeverServed ==
  /\ (resp.op = "check" /\ resp.path = DescriptorFile) => ~resp.allowed
  /\ \A i \in DOMAIN resp.contents : resp.contents[i].name # "ABOUT"
  /\ (resp.op \in {"view", "download"} /\ resp.path = <<"p", "ABOUT">>)
       => resp.status = 404

\* C4: within one request no file's content is read unless is_path_allowed
\* accepted that same path earlier in the request.
C4_ReadsAreValidated ==
  \A i \in DOMAIN resp.trace :
    (resp.trace[i].op = "read" /\ resp.trace[i].ok)
      => \E j \in 1..(i - 1) :
           /\ resp.trace[j].op = "allow"
           /\ resp.trace[j].ok
           /\ resp.trace[j].path = resp.trace[i].path

Range(q) == {q[i] : i \in DOMAIN q}

\* The directory a download request's URL path leads to.
RequestedPath == RealPath(WorkspaceRoot \o resp.path, fs).p

\* The regular files below dir, links not followed, that are not named ABOUT
\* and that the validator accepts with ignore enforcement on, by their
\* paths relative to dir.
ArchiveExpected(dir) ==
  { StripPrefix(q, dir) :
      q \in { x \in Universe :
                /\ IsWithin(x, dir) /\ x # dir
                /\ fs[x].kind = "file"
                /\ \A k \in Len(dir)..(Len(x) - 1) : NodeAt(SubSeq(x, 1, k), fs).kind = "dir"
                /\ Last(x) # "ABOUT"
                /\ is_path_allowed(x, TRUE, WorkspaceRoot, fs) } }

\* C8: the archive of a directory holds exactly one entry per regular file
\* below it that is not named ABOUT and that is_path_allowed accepts with
\* ignore enforcement on, named by its relative path; it holds no entry for
\* a directory or for the root; and a directory with no such file gives an
\* empty archive, not an error.
C8_ArchiveEntries ==
  /\ (resp.op = "download" /\ resp.view = "zip")
       => /\ Range(resp.entries) = ArchiveExpected(RequestedPath)
          /\ Len(resp.entries) = Cardinality(ArchiveExpected(RequestedPath))
  /\ resp.op = "download" => resp.status # 500

\* C8's case: a project holding a.txt, .hidden and ABOUT was archived, and
\* the archive holds a.txt alone.
C8_Witness ==
  /\ resp.op = "download" /\ resp.path = <<"p">> /\ resp.view = "zip"
  /\ fs[<<"ws", "p", "a.txt">>].kind = "file"
  /\ fs[<<"ws", "p", ".hidden">>].kind = "file"
  /\ fs[<<"ws", "p", "ABOUT">>].kind = "file"
  /\ resp.entries = << <<"a.txt">> >>

\* A project with no admissible file was archived: the archive is empty.
C8_EmptyArchive ==
  /\ resp.op = "download" /\ resp.path = <<"p">> /\ resp.view = "zip"
  /\ fs[<<"ws", "p", "ABOUT">>].kind = "file"
  /\ resp.entries = <<>>

Listed(name) == \E i \in DOMAIN resp.contents : resp.contents[i].name = name

IsBinary(node) == node.nul >= 0 /\ node.nul < BINARY_PROBE

\* C9: an admissible regular file of at most MAX_FILE_SIZE bytes is listed,
\* is downloaded, and is not refused by the view endpoint (a text file is
\* shown); one of MAX_FILE_SIZE + 1 bytes is left out of the listing and
\* refused (403) by both endpoints.  A directory is listed whatever its size.
C9_SizeCeiling ==
  \A q \in Universe :
    LET node == fs[q]
        url == StripPrefix(q, WorkspaceRoot)
        small == node.len <= MAX_FILE_SIZE
    IN (/\ IsWithin(q, WorkspaceRoot) /\ q # WorkspaceRoot
        /\ node.kind \in {"file", "dir"}
        /\ is_path_allowed(q, resp.flag, WorkspaceRoot, fs))
       =>
       /\ (resp.op = "list" /\ resp.path = Parent(q))
            => (Listed(Last(q)) <=> (node.kind = "dir" \/ small))
       /\ (resp.op = "download" /\ resp.path = url /\ node.kind = "file")
            => resp.status = (IF small THEN 200 ELSE 403)
       /\ (resp.op = "view" /\ resp.path = url /\ node.kind = "file")
            => resp.status = (IF ~small THEN 403 ELSE IF IsBinary(node) THEN 400 ELSE 200)

\* C9's case: a text file of exactly MAX_FILE_SIZE bytes was requested and shown.
C9_Witness ==
  /\ resp.op = "view" /\ resp.path = <<"p", "a.txt">>
  /\ fs[<<"ws", "p", "a.txt">>].len = MAX_FILE_SIZE
  /\ resp.status = 200

\* A file one byte over the ceiling is absent from its directory's listing,
\* next to a directory over the ceiling that is listed.
C9_OverCeilingDropped ==
  /\ resp.op = "list" /\ resp.path = Proj
  /\ fs[<<"ws", "p", "a.txt">>].len = MAX_FILE_SIZE + 1
  /\ fs[<<"ws", "p", "d">>].len = MAX_FILE_SIZE + 1
  /\ ~Listed("a.txt") /\ Listed("d")

LowerName(e) == to_lowercase(Chars(e.name))

\* Directories come before files, and within each group the lower-cased
\* names do not decrease.
Ordered(c) ==
  \A i, j \in DOMAIN c :
    i < j => /\ (c[i].is_dir \/ ~c[j].is_dir)
             /\ (c[i].is_dir = c[j].is_dir
                   => StrCmp(LowerName(c[i]), LowerName(c[j])) # "Greater")

\* C10: every sequence get_directory_contents returns has its directories
\* before its files and each group in case-insensitive order of the names,
\* and a second call on the unchanged directory returns the same sequence.
C10_ListingOrdered ==
  /\ Ordered(resp.contents)
  /\ resp.op = "relist" => resp.again = resp.contents

\* C10's case: a project whose entries the filesystem hands out as README.md,
\* d, a.txt was listed twice.
C10_Witness ==
  /\ resp.op = "relist" /\ resp.path = Proj /\ readdir_rev
  /\ [i \in DOMAIN resp.contents |-> resp.contents[i].name]
       = <<"d", "a.txt", "README.md">>

\* The workspace root's listing holds two projects, p before Q.
C10_RootListing ==
  /\ resp.op = "list" /\ resp.path = WorkspaceRoot
  /\ [i \in DOMAIN resp.contents |-> resp.contents[i].name] = <<"p", "Q">>

(***************************************************************************)
(* The Markdown renderer.                                                  *)
(***************************************************************************)
Rendered == md.pc = "done"
Fences(d) == {k \in DOMAIN d : d[k].type = "fence"}
LogIndex(op) == {k \in DOMAIN md.log : md.log[k].op = op}

\* C5: each fenced code block is highlighted and sanitized with the code
\* allow-list when its block ends, inside the loop; the document allow-list
\* runs once over everything else, after the loop; the placeholders are
\* replaced only after that.  So in the output every atom of a code block
\* has passed the code sanitizer once and the document sanitizer never, and
\* every other atom has passed the document sanitizer exactly once.
C5_SanitizeThenSubstitute ==
  /\ \A c \in LogIndex("code_clean"), s \in LogIndex("doc_clean") : c < s
  /\ \A s \in LogIndex("doc_clean"), r \in LogIndex("subst") : s < r
  /\ Cardinality(LogIndex("doc_clean")) = (IF md.pc = "loop" THEN 0 ELSE 1)
  /\ md.pc = "loop" => Cardinality(LogIndex("code_clean")) = Len(md.code_blocks)
  /\ \A k \in DOMAIN md.code_blocks : \A j \in DOMAIN md.code_blocks[k] :
       LET a == md.code_blocks[k][j] IN a.org = "code" /\ a.code = 1 /\ a.doc = 0
  /\ md.pc # "loop" =>
       \A j \in DOMAIN md.final_html :
         LET a == md.final_html[j]
         IN IF a.org = "code" THEN a.code = 1 /\ a.doc = 0
                              ELSE a.code = 0 /\ a.doc = 1

\* C5 happens: a document with prose and a fenced block is rendered, the
\* output holding sanitized prose and the block's styled spans.
C5_Witness ==
  /\ Rendered
  /\ \E j \in DOMAIN md.final_html : md.final_html[j].org = "code" /\ md.final_html[j].v = "span.rs"
  /\ \E j \in DOMAIN md.final_html : md.final_html[j].org = "md" /\ md.final_html[j].v = "p"
  /\ Cardinality(LogIndex("subst")) = 2

PlaceholderTexts == {Placeholder(i) : i \in 0..MaxBlocks}

\* C6: the rendered output holds no placeholder token, whatever the text of
\* the document spells.
C6_NoPlaceholderLeft ==
  Rendered =>
    \A j \in DOMAIN md.final_html :
      ~(md.final_html[j].k = "text" /\ md.final_html[j].v \in PlaceholderTexts)

RenderAgrees == Rendered => md.final_html = render_markdown(doc)

(***************************************************************************)
(* The ignore-pattern file and failing probes.                             *)
(***************************************************************************)
\* The lines of an ignore-pattern file that parse.
ValidLines(lines) == SelectSeq(lines, LAMBDA r : r.kind = "rule")

IgnoreFile == Append(Proj, ".gitignore")

\* C11: a line of the ignore-pattern file that does not parse is skipped and
\* the other lines still count: a path below the project that the lines
\* which parse ignore is rejected when the rules are enforced.
C11_BadLineSkipped ==
  (/\ resp.op = "check" /\ resp.flag
   /\ RealPath(resp.path, fs).ok
   /\ StartsWith(RealPath(resp.path, fs).p, Proj)
   /\ RealPath(resp.path, fs).p # Proj
   /\ is_file(IgnoreFile, fs)
   /\ \E i \in DOMAIN fs[IgnoreFile].rules : fs[IgnoreFile].rules[i].kind = "bad"
   /\ matched_is_ignore(ValidLines(fs[IgnoreFile].rules),
                        StripPrefix(RealPath(resp.path, fs).p, Proj), FALSE))
    => ~resp.allowed

\* A probe the validator depends on fails: the path cannot be canonicalized,
\* the workspace root cannot, or the rules are enforced on a path below the
\* project whose ignore-pattern file exists and cannot be read or compiled.
ProbeFails(path, flag, f) ==
  \/ ~RealPath(path, f).ok
  \/ ~RealPath(WorkspaceRoot, f).ok
  \/ /\ flag
     /\ StartsWith(RealPath(path, f).p, Proj) /\ RealPath(path, f).p # Proj
     /\ exists(IgnoreFile, f)
     /\ \/ ~readable(IgnoreFile, f)
        \/ \E i \in DOMAIN ContentOf(IgnoreFile, f).rules :
             ContentOf(IgnoreFile, f).rules[i].kind = "bad"

\* C12: the validator fails closed: when one of its probes fails, a path other
\* than the workspace root is rejected.
C12_FailClosed ==
  (/\ resp.op = "check"
   /\ resp.path # WorkspaceRoot
   /\ ProbeFails(resp.path, resp.flag, fs))
    => ~resp.allowed

(***************************************************************************)
(* The descriptor file and the project's content.                          *)
(***************************************************************************)
AboutFile == Append(Proj, "ABOUT")
ReadmeFile == Append(Proj, "README.md")
ProjectViewed == resp.op = "view" /\ resp.path = <<"p">>

\* A tag line: its first character that is not a space is '#'.
IsTagLine(l) == starts_with(trim(Chars(l)), 35)
TagOf(l) == Str(trim(Tail(trim(Chars(l)))))
IsBlankLine(l) == trim(Chars(l)) = <<>>

LineTags(lines) ==
  LET tag_lines == SelectSeq(lines, IsTagLine)
  IN [i \in 1..Len(tag_lines) |-> TagOf(tag_lines[i])]

LineSummary(lines) ==
  LET K == {i \in 1..Len(lines) : ~IsTagLine(lines[i]) /\ ~IsBlankLine(lines[i])}
  IN IF K = {} THEN NoString
     ELSE SomeString(Str(trim(Chars(lines[CHOOSE i \in K : \A j \in K : i <= j]))))

\* C13: of a descriptor file, every line whose first non-space character is
\* '#' gives a tag, the text after the '#', trimmed, in file order; the
\* summary is the first line that is neither a tag line nor blank, trimmed.
C13_DescriptorLines ==
  (ProjectViewed /\ fs[AboutFile].kind = "file") =>
    /\ resp.about.tags = LineTags(fs[AboutFile].text)
    /\ resp.about.about_sentence = LineSummary(fs[AboutFile].text)

HasText(html, t) == \E j \in DOMAIN html : html[j].k = "text" /\ html[j].v = t

ReadmeObtained ==
  /\ exists(ReadmeFile, fs)
  /\ is_path_allowed(ReadmeFile, TRUE, WorkspaceRoot, fs)
  /\ readable(ReadmeFile, fs)

\* C14: on a project page, a README that exists, is admissible and can be
\* read is rendered as the content and named as its source; the tags of a
\* descriptor that can be read are returned with or without a README; the
\* descriptor's summary is rendered as the content when, and only when, no
\* README content was obtained.
C14_ProjectContent ==
  ProjectViewed =>
    /\ ReadmeObtained =>
         /\ resp.about.source_file = "README.md"
         /\ resp.about.content.some
         /\ resp.about.content_from = ReadmeFile
         /\ \A i \in DOMAIN fs[ReadmeFile].text :
              HasText(resp.about.content.html, fs[ReadmeFile].text[i])
         /\ resp.about.content.html = render_markdown(markdown_of(fs[ReadmeFile].text))
    /\ readable(AboutFile, fs) =>
         /\ resp.about.tags = parse_about_file(AboutFile, fs).tags
         /\ resp.about.tags_from = AboutFile
    /\ (~ReadmeObtained /\ readable(AboutFile, fs)
          /\ parse_about_file(AboutFile, fs).about_sentence.some) =>
         /\ resp.about.content.some
         /\ resp.about.content_from = AboutFile
         /\ HasText(resp.about.content.html, parse_about_file(AboutFile, fs).about_sentence.s)
         /\ \A j \in DOMAIN resp.about.content.html : resp.about.content.html[j].doc = 1
    /\ resp.about.content_from = AboutFile => ~ReadmeObtained

\* C14 happens: a project with a README and a descriptor holding tags and a
\* summary is shown with the README as content and the descriptor's tags.
C14_Witness ==
  /\ ProjectViewed
  /\ ReadmeObtained
  /\ parse_about_file(AboutFile, fs).about_sentence.some
  /\ resp.about.tags # <<>>
  /\ resp.about.source_file = "README.md"

\* The summary is the content of a project without a README.
C14_SummaryShown ==
  /\ ProjectViewed
  /\ ~exists(ReadmeFile, fs)
  /\ resp.about.tags # <<>>
  /\ resp.about.content_from = AboutFile

(***************************************************************************)
(* The outcomes of the view and download endpoints.                        *)
(***************************************************************************)
UrlPath == WorkspaceRoot \o resp.path

\* The request's path does not exist, the handler's validation call
\* rejected it, or the path is a symbolic link.
Rejected ==
  \/ ~exists(UrlPath, fs)
  \/ (resp.trace # <<>> /\ resp.trace[1].op = "allow" /\ ~resp.trace[1].ok)
  \/ is_symlink(UrlPath, fs)

\* C15: view and download answer not-found (404), and nothing else, to every
\* request whose path does not exist, fails validation or is a symbolic link.
C15_RejectedIsNotFound ==
  (resp.op \in {"view", "download"} /\ resp.path # <<>> /\ Rejected)
    => resp.status = 404

(***************************************************************************)
(* The claims about requests whose files change while they are served.     *)
(***************************************************************************)
\* The request's path passed the validator.
Validated == Len(resp.trace) > 0 /\ resp.trace[1].op = "allow" /\ resp.trace[1].ok

\* The tree changed after the validation, and a later read of the request
\* failed on the changed path.
ReadLost ==
  /\ resp.change # "none"
  /\ resp.switch > Phase("check")
  /\ \E i \in DOMAIN resp.trace :
       /\ resp.trace[i].op = "read"
       /\ ~resp.trace[i].ok
       /\ StartsWith(resp.trace[i].path, resp.victim)

\* C16: a request whose path passed the validator and was removed or made
\* unreadable before a later read ends in not-found (404), never in the
\* binary answer (400) or the internal error (500).
C16_RaceIsNotFound ==
  (resp.op \in {"view", "download"} /\ Validated /\ ReadLost) => resp.status = 404

(***************************************************************************)
(* The claims about the listing of the workspace root.                     *)
(***************************************************************************)
\* The canonical form of the configured root.
CanonicalRoot == canonicalize(resp.root, fs).p

\* The listed directory is the workspace root, spelled as configured or in
\* its canonical form.
RootListed == resp.op = "root" /\ resp.path \in {resp.root, CanonicalRoot}

\* C17: a listing of the workspace root, under either spelling, holds only
\* immediate children that are real directories: no regular file and no
\* symbolic link.
C17_RootListsRealDirs ==
  RootListed =>
    \A i \in DOMAIN resp.contents :
      /\ resp.contents[i].is_dir
      /\ resp.contents[i].path = <<resp.contents[i].name>>
      /\ NodeAt(Append(CanonicalRoot, resp.contents[i].name), fs).kind = "dir"

\* The root was listed under its canonical spelling while configured under
\* another; it holds a regular file and a link, and the listing is not empty.
C17_Witness ==
  /\ RootListed
  /\ resp.path # resp.root
  /\ NodeAt(Append(CanonicalRoot, "r.txt"), fs).kind = "file"
  /\ NodeAt(Append(CanonicalRoot, "sl"), fs).kind = "link"
  /\ resp.contents # <<>>

\* The path under which the server would look up a listed entry.
OfferedPath(e) == resp.root \o e.path

\* C20: every entry of a listing, of the workspace root or of a directory
\* below it, is a path is_path_allowed accepts with the listing's ignore flag.
C20_ListedIsAllowed ==
  resp.op = "root" =>
    \A i \in DOMAIN resp.contents :
      is_path_allowed(OfferedPath(resp.contents[i]), resp.flag, resp.root, fs)

(***************************************************************************)
(* The claims about the classification of a file view.                     *)
(***************************************************************************)
\* An undisturbed view request whose path does not lead to a directory.
FileViewed == resp.op = "view" /\ resp.change = "none" /\ ~is_dir(UrlPath, fs)

\* The status the classification prescribes for the viewed file.
Classified(node) ==
  IF ~canonicalize(UrlPath, fs).ok
     \/ ~is_path_allowed(canonicalize(UrlPath, fs).p, TRUE, WorkspaceRoot, fs)
    THEN 404
  ELSE IF node.len > MAX_FILE_SIZE THEN 403
  ELSE IF node.nul >= 0 /\ node.nul < BINARY_PROBE THEN 400
  ELSE 200

\* C18: a file view answers 404 when validation fails, else 403 when the
\* file is over the size ceiling, else 400 exactly when a NUL byte is among
\* its first 1024 bytes, else it is rendered (200).
C18_ViewClassified == FileViewed => resp.status = Classified(ContentOf(UrlPath, fs))

(***************************************************************************)
(* The claims about the renderer's capture of fenced code blocks.          *)
(***************************************************************************)
\* The texts a document spells outside its fenced blocks, and inside them.
LiteralTexts(d) ==
  UNION { {d[k].lines[j] : j \in DOMAIN d[k].lines} : k \in DOMAIN d \ Fences(d) }

CapturedTexts(d) == UNION { {d[k].lines[j] : j \in DOMAIN d[k].lines} : k \in Fences(d) }

\* The placeholder tokens of a string of HTML, in order.
PlaceholdersIn(h) == SelectSeq(h, LAMBDA a : a.k = "text" /\ a.v \in PlaceholderTexts)

\* What the main output and the side list hold at any moment: a text that
\* only fenced blocks spell is not in the main output, and the main output
\* of a document that spells no token itself holds one token per stored
\* block, the k-th with index k-1.
CaptureKept ==
  md.pc # "idle" =>
    /\ \A t \in CapturedTexts(doc) \ (LiteralTexts(doc) \cup PlaceholderTexts) :
         \A j \in DOMAIN md.html_output : md.html_output[j].v # t
    /\ LiteralTexts(doc) \cap PlaceholderTexts = {} =>
         PlaceholdersIn(md.html_output) =
           [k \in 1..Len(md.code_blocks) |-> Atom("text", Placeholder(k - 1), "md")]

\* What one turn of the loop does in the in-code-block state.
CaptureStep ==
  /\ (Looping /\ md.in_code_block /\ IsText(Head(md.events))) =>
       /\ md'.html_output = md.html_output
       /\ md'.current_code = Append(md.current_code, Head(md.events).text)
       /\ md'.code_blocks = md.code_blocks
       /\ md'.in_code_block
  /\ (Looping /\ md.in_code_block /\ IsCodeBlockEnd(Head(md.events))) =>
       /\ Len(md'.code_blocks) = Len(md.code_blocks) + 1
       /\ md'.html_output =
            Append(md.html_output, Atom("text", Placeholder(Len(md.code_blocks)), "md"))
       /\ md'.current_code = <<>>
       /\ md'.current_lang = ""
       /\ ~md'.in_code_block
  /\ ~(Looping /\ md.in_code_block /\ IsCodeBlockEnd(Head(md.events))) =>
       md'.code_blocks = md.code_blocks

\* C19: in the in-code-block state a text event is appended to the buffer
\* and not serialized; the end of a fenced block stores one block, emits one
\* placeholder whose index is the block's position in the side list, clears
\* the buffer and the language tag and returns to normal; so the main
\* output holds as many placeholders as the side list holds blocks, the
\* k-th with index k-1.
C19_CodeBlockCapture == [][CaptureStep]_vars /\ []CaptureKept

\* The loop is over for a document of two fenced blocks with text, one of
\* them spelling a placeholder token in its body.
C19_Witness ==
  /\ md.pc = "substitute"
  /\ Len(md.code_blocks) = 2
  /\ LiteralTexts(doc) \cap PlaceholderTexts = {}
  /\ Placeholder(1) \in CapturedTexts(doc)
  /\ "fn" \in CapturedTexts(doc) \ LiteralTexts(doc)
  /\ Len(PlaceholdersIn(md.html_output)) = 2

(***************************************************************************)
(* The claims about what lies below a rejected directory.                  *)
(***************************************************************************)
\* The directories inside a project that lie above the path p.
DirsAbove(p) ==
  { SubSeq(p, 1, n) : n \in (Len(Proj) + 1)..(Len(p) - 1) } \cap
  { d \in DOMAIN fs : fs[d].kind = "dir" }

\* Every directory above p passes the validator with the ignore rules on.
AboveAllowed(p) == \A d \in DirsAbove(p) : is_path_allowed(d, TRUE, WorkspaceRoot, fs)

\* C21: a path the validator accepts with the ignore rules on, a path that
\* is viewed or downloaded, and a file put into an archive lie below no
\* directory of the project that the validator rejects.
C21_RejectionInherited ==
  /\ (resp.op = "check" /\ resp.flag /\ resp.allowed) => AboveAllowed(resp.path)
  /\ (resp.op \in {"view", "download"} /\ resp.status = 200) => AboveAllowed(UrlPath)
  /\ (resp.op = "download" /\ resp.status = 200) =>
       \A i \in DOMAIN resp.entries : AboveAllowed(UrlPath \o resp.entries[i])

(***************************************************************************)
(* The claims about the size of archived files.                            *)
(***************************************************************************)
\* The response is an archive of the requested directory.
Archived == resp.op = "download" /\ resp.status = 200 /\ resp.view = "zip"

\* C22: an archive holds no regular file longer than MAX_FILE_SIZE.
C22_ArchiveUnderCeiling ==
  Archived =>
    \A i \in DOMAIN resp.entries :
      symlink_metadata(UrlPath \o resp.entries[i], fs).node.len <= MAX_FILE_SIZE

(***************************************************************************)
(* The claims about the source label of a project's content.               *)
(***************************************************************************)
\* C23: get_project_content reports a source label exactly when it reports
\* rendered content.
C23_LabelIffContent ==
  ProjectViewed => (resp.about.source_file # "" <=> resp.about.content.some)

====
